---- MODULE Spec2Model ----
(***************************************************************************)
(* Model of wiotp/sdk/api/dsc/connectors.py: the historian connector       *)
(* client (Connector, IterableConnectorList, Connectors) driven by a       *)
(* single synchronous caller against an HTTP transport whose replies are   *)
(* chosen nondeterministically.                                            *)
(*                                                                         *)
(* Python values are modelled as strings ("True", "False", "{}", ...), the *)
(* value None as the string None below, and a dict as a function from a    *)
(* set of string keys to values.                                           *)
(***************************************************************************)
EXTENDS Integers, Sequences, FiniteSets, TLC

VARIABLES
    requests,      \* every request the transport has received, in order
    lastRequest,   \* the last request in full (url, body, query parameters)
    lastResponse,  \* the transport's reply to it
    calls,         \* the calls made on Connectors (find, create, update), in order
    lastCall,      \* the last call and its arguments
    result,        \* what the last call returned or raised
    accessed,      \* the last property read on the returned Connector
    list,          \* the IterableConnectorList the last find returned
    fetches,       \* the query parameters of the page fetches that list made
    served,        \* the pages the transport served to that list
    yielded        \* the items that list has yielded so far

vars == <<requests, lastRequest, lastResponse, calls, lastCall, result, accessed,
          list, fetches, served, yielded>>

crudVars == <<requests, lastRequest, lastResponse, calls, lastCall, result>>

listVars == <<list, fetches, served, yielded>>

----------------------------------------------------------------------------
(* Bounds of the model *)

MaxCalls == 3

MaxFinds == 2

MaxPages == 3

MaxPageLen == 2

----------------------------------------------------------------------------
(* Python values *)

None == "None"

EmptyDict == [k \in {} |-> None]

SetItem(d, k, v) == [x \in DOMAIN d \cup {k} |-> IF x = k THEN v ELSE d[x]]

DelKeys(d, ks) == [x \in DOMAIN d \ ks |-> d[x]]

\* Python truth value of the modelled values: None, "", False and {} are falsy
Truthy(v) == v \notin {None, "", "False", "{}"}

----------------------------------------------------------------------------
(* Program constants *)

allHistorianConnectorsUrl == "api/v0002/historianconnectors"

OneHistorianConnectorUrl(connectorId) == "api/v0002/historianconnectors/" \o connectorId

HTTP_CREATED == 201

HTTP_OK == 200

----------------------------------------------------------------------------
(* Inputs: the arguments the caller passes and the replies of the transport *)

Names == {"x"}

Types == {"cloudant"}

ServiceIds == {"s1"}

Timezones == {"UTC"}

Descriptions == {"d"}

Enableds == {"True"}

Configurations == {None, "{}", "{x:1}"}

ConnectorIds == {"c1", "c2"}

StatusCodes == {200, 201, 400, 500}

FullBody(id) ==
    [id |-> id, name |-> "x", type |-> "cloudant", description |-> "d",
     serviceId |-> "s1", timezone |-> "UTC", enabled |-> "True",
     adminDisabled |-> "False", configuration |-> "{x:1}"]

OptionalKeys == {"id", "type", "serviceId", "timezone", "enabled", "adminDisabled", "configuration"}

\* JSON bodies the server may send: a full connector, or one with a key missing,
\* or one with neither id nor type
Bodies ==
    {FullBody(id) : id \in ConnectorIds}
        \cup {DelKeys(FullBody("c1"), {k}) : k \in OptionalKeys}
        \cup {DelKeys(FullBody("c1"), {"id", "type"})}

Responses == [status_code : StatusCodes, json : Bodies]

NoResponse == [status_code |-> 0, json |-> EmptyDict]

NoRequest == [verb |-> "none", url |-> "", data |-> EmptyDict, params |-> EmptyDict]

----------------------------------------------------------------------------
(* Outcomes of a call: a returned value or a raised exception *)

\* kind: what was returned or raised; item: the Connector's backing dict;
\* response: the reply an ApiException carries; value: a plain value returned,
\* or the key a KeyError names
Outcome(kind, item, response, value) ==
    [kind |-> kind, item |-> item, response |-> response, value |-> value]

NoOutcome == Outcome("none", EmptyDict, NoResponse, "")

Returned(item) == Outcome("Connector", item, NoResponse, "")

ApiException(r) == Outcome("ApiException", EmptyDict, r, "")

KeyError(key) == Outcome("KeyError", EmptyDict, NoResponse, key)

----------------------------------------------------------------------------
(* class Connector *)

\* Variant: the handles are built from kwargs.get(...), nothing is required
ConnectorInitLenient(kwargs) == Returned(kwargs)

\* Connector.__init__(apiClient, **kwargs): kwargs["id"] and kwargs["type"] are
\* read to build the Destinations and ForwardingRules handles, then the dict
\* is initialised from kwargs
ConnectorInit(kwargs) ==
    IF "id" \notin DOMAIN kwargs THEN KeyError("id")
    ELSE IF "type" \notin DOMAIN kwargs THEN KeyError("type")
    ELSE Returned(kwargs)

\* A property reads the backing dict and leaves it alone: the pair of what the
\* read returns or raises and the dict afterwards
Read(value, self) == [out |-> Outcome("value", EmptyDict, NoResponse, value), self |-> self]

Raise(key, self) == [out |-> KeyError(key), self |-> self]

GetItem(self, key) == IF key \in DOMAIN self THEN Read(self[key], self) ELSE Raise(key, self)

serviceId(self) == GetItem(self, "serviceId")

connectorType(self) == GetItem(self, "type")

\* Variant: configuration read like the required fields
configurationRequired(self) == GetItem(self, "configuration")

configuration(self) ==
    IF "configuration" \in DOMAIN self THEN Read(self["configuration"], self)
    ELSE Read(None, self)

adminDisabled(self) == GetItem(self, "adminDisabled")

enabled(self) == GetItem(self, "enabled")

timezone(self) == GetItem(self, "timezone")

Properties == {"serviceId", "connectorType", "configuration", "adminDisabled", "enabled", "timezone"}

\* The backing key each property projects
FieldOf(prop) == IF prop = "connectorType" THEN "type" ELSE prop

Property(prop, self) ==
    CASE prop = "serviceId" -> serviceId(self)
      [] prop = "connectorType" -> connectorType(self)
      [] prop = "configuration" -> configuration(self)
      [] prop = "adminDisabled" -> adminDisabled(self)
      [] prop = "enabled" -> enabled(self)
      [] prop = "timezone" -> timezone(self)

----------------------------------------------------------------------------
(* class IterableConnectorList, over IterableList of wiotp.sdk.api.common *)

NoList ==
    [state |-> "none", url |-> "", sort |-> None, filters |-> EmptyDict,
     bookmark |-> None, buffer |-> <<>>, noMoreResults |-> FALSE]

\* IterableList.__init__: keeps the url and the filters, sets the cursor to the
\* first page, issues no request
IterableListInit(url, sort, filters) ==
    [state |-> "open", url |-> url, sort |-> sort, filters |-> filters,
     bookmark |-> None, buffer |-> <<>>, noMoreResults |-> FALSE]

\* IterableConnectorList.__init__: this API does not support sorting
IterableConnectorListInit(url, filters) == IterableListInit(url, None, filters)

RECURSIVE Concat(_)
\* The items of a sequence of pages, in order
Concat(pages) ==
    IF pages = <<>> THEN <<>> ELSE Head(pages).results \o Concat(Tail(pages))

\* The query parameters of a page fetch: the filters, and the bookmark of the
\* previous reply when there is one
FetchParams(l) ==
    IF l.bookmark # None THEN SetItem(l.filters, "bookmark", l.bookmark) ELSE l.filters

\* Variant: the cursor stays on the first bookmark it was given
MakeApiCallStuck(l, json) ==
    [l EXCEPT !.buffer = json.results,
              !.bookmark = IF l.bookmark # None THEN l.bookmark
                           ELSE IF "bookmark" \in DOMAIN json THEN json.bookmark ELSE None,
              !.noMoreResults = "bookmark" \notin DOMAIN json]

\* The list after a page fetch answered with the body json: the page is
\* buffered and the cursor moves to the reply's bookmark; no bookmark ends it
MakeApiCall(l, json) ==
    [l EXCEPT !.buffer = json.results,
              !.bookmark = IF "bookmark" \in DOMAIN json THEN json.bookmark ELSE None,
              !.noMoreResults = "bookmark" \notin DOMAIN json]

\* Taking the next item off the buffered page
PopItem(buffer) == [item |-> Head(buffer), rest |-> Tail(buffer)]

StopIteration == Outcome("StopIteration", EmptyDict, NoResponse, "")

\* The sizes of the pages the transport serves: empty, a single connector, full
PageLens == {0, 1, MaxPageLen}

\* The replies the transport may give to the fetch of page n when it has served
\* `before` items: a failure, or a page of further connectors, with a bookmark
\* unless it is the last page (the MaxPages-th at the latest); a page that is
\* not the last is not empty
PageReplies(n, before) ==
    {[status_code |-> 500, json |-> EmptyDict]}
      \cup {[status_code |-> HTTP_OK,
              json |-> [results |-> [i \in 1..len |-> [id |-> ToString(before + i), type |-> "cloudant"]],
                        bookmark |-> "b" \o ToString(n)]] : len \in PageLens \ {0}}
      \cup {[status_code |-> HTTP_OK,
              json |-> [results |-> [i \in 1..len |-> [id |-> ToString(before + i), type |-> "cloudant"]]]] :
                  len \in PageLens}

----------------------------------------------------------------------------
(* class Connectors *)

\* find: the query parameters built from the four arguments
FindQueryParms(nameFilter, typeFilter, enabledFilter, serviceIdArg) ==
    LET q0 == EmptyDict
        q1 == IF Truthy(nameFilter) THEN SetItem(q0, "name", nameFilter) ELSE q0
        q2 == IF Truthy(typeFilter) THEN SetItem(q1, "type", typeFilter) ELSE q1
        q3 == IF Truthy(enabledFilter) THEN SetItem(q2, "enabled", enabledFilter) ELSE q2
        q4 == IF Truthy(serviceIdArg) THEN SetItem(q3, "serviceId", serviceIdArg) ELSE q3
    IN  q4

\* create: the body of the POST
CreateBody(name, type, serviceIdArg, timezoneArg, description, enabledArg, configurationArg) ==
    [name |-> name, type |-> type, description |-> description,
     serviceId |-> serviceIdArg, timezone |-> timezoneArg, enabled |-> enabledArg]

\* Variant: configuration tested for truth instead of against None
UpdateBodyTruthy(connectorId, serviceIdArg, name, type, description, timezoneArg, enabledArg, configurationArg) ==
    LET b == [id |-> connectorId, name |-> name, type |-> type,
              serviceId |-> serviceIdArg, description |-> description,
              timezone |-> timezoneArg, enabled |-> enabledArg]
    IN  IF Truthy(configurationArg) THEN SetItem(b, "configuration", configurationArg) ELSE b

\* update: the body of the PUT
UpdateBody(connectorId, serviceIdArg, name, type, description, timezoneArg, enabledArg, configurationArg) ==
    LET b == [id |-> connectorId, name |-> name, type |-> type,
              serviceId |-> serviceIdArg, description |-> description,
              timezone |-> timezoneArg, enabled |-> enabledArg]
    IN  IF configurationArg # None THEN SetItem(b, "configuration", configurationArg) ELSE b

\* Variant: any 2xx status taken for success
CreateResultAny2xx(r) ==
    IF r.status_code >= 200 /\ r.status_code < 300 THEN ConnectorInit(r.json) ELSE ApiException(r)

\* create: what the call returns or raises on the reply r
CreateResult(r) == IF r.status_code = HTTP_CREATED THEN ConnectorInit(r.json) ELSE ApiException(r)

\* Variant: any 2xx status taken for success
UpdateResultAny2xx(r) ==
    IF r.status_code >= 200 /\ r.status_code < 300 THEN ConnectorInit(r.json) ELSE ApiException(r)

\* update: what the call returns or raises on the reply r
UpdateResult(r) == IF r.status_code = HTTP_OK THEN ConnectorInit(r.json) ELSE ApiException(r)

\* The requests a call sends to the transport, as the transport logs them
Sent(verb, url) == <<[verb |-> verb, url |-> url]>>

\* Variant: a failed POST is sent again
CreateRequestsRetry(url, r) ==
    IF r.status_code # HTTP_CREATED THEN Sent("POST", url) \o Sent("POST", url) ELSE Sent("POST", url)

\* create posts once, whatever the reply r
CreateRequests(url, r) == Sent("POST", url)

\* update puts once, whatever the reply r
UpdateRequests(url, r) == Sent("PUT", url)

\* Variant: the first page is fetched at once
FindRequestsEager(url) == Sent("GET", url)

\* find sends nothing
FindRequests(url) == <<>>

Call(op) == [op |-> op]

NoAccess == [prop |-> "", out |-> NoOutcome, before |-> EmptyDict]

\* Connectors.create(name, type, serviceId, timezone, description, enabled, configuration),
\* the transport answering r
Create(name, type, serviceIdArg, timezoneArg, description, enabledArg, configurationArg, r) ==
    /\ Len(calls) < MaxCalls
    /\ LET connector == CreateBody(name, type, serviceIdArg, timezoneArg, description,
                                   enabledArg, configurationArg)
           url == allHistorianConnectorsUrl
       IN  /\ requests' = requests \o CreateRequests(url, r)
           /\ lastRequest' = [verb |-> "POST", url |-> url, data |-> connector, params |-> EmptyDict]
           /\ lastResponse' = r
           /\ result' = CreateResult(r)
           /\ calls' = Append(calls, Call("create"))
           /\ lastCall' = [op |-> "create",
                           args |-> [name |-> name, type |-> type, serviceId |-> serviceIdArg,
                                     timezone |-> timezoneArg, description |-> description,
                                     enabled |-> enabledArg, configuration |-> configurationArg]]
    /\ accessed' = NoAccess
    /\ UNCHANGED listVars

\* Connectors.update(connectorId, serviceId, name, type, description, timezone, enabled,
\* configuration), the transport answering r
Update(connectorId, serviceIdArg, name, type, description, timezoneArg, enabledArg, configurationArg, r) ==
    /\ Len(calls) < MaxCalls
    /\ LET connectorBody == UpdateBody(connectorId, serviceIdArg, name, type, description,
                                       timezoneArg, enabledArg, configurationArg)
           url == OneHistorianConnectorUrl(connectorId)
       IN  /\ requests' = requests \o UpdateRequests(url, r)
           /\ lastRequest' = [verb |-> "PUT", url |-> url, data |-> connectorBody, params |-> EmptyDict]
           /\ lastResponse' = r
           /\ result' = UpdateResult(r)
           /\ calls' = Append(calls, Call("update"))
           /\ lastCall' = [op |-> "update",
                           args |-> [connectorId |-> connectorId, name |-> name, type |-> type,
                                     serviceId |-> serviceIdArg, timezone |-> timezoneArg,
                                     description |-> description, enabled |-> enabledArg,
                                     configuration |-> configurationArg]]
    /\ accessed' = NoAccess
    /\ UNCHANGED listVars

\* Connectors.find(nameFilter, typeFilter, enabledFilter, serviceId)
Find(nameFilter, typeFilter, enabledFilter, serviceIdArg) ==
    /\ Len(calls) < MaxFinds
    /\ LET queryParms == FindQueryParms(nameFilter, typeFilter, enabledFilter, serviceIdArg)
           url == allHistorianConnectorsUrl
       IN  /\ list' = IterableConnectorListInit(url, queryParms)
           /\ requests' = requests \o FindRequests(url)
    /\ result' = Outcome("IterableConnectorList", EmptyDict, NoResponse, "")
    /\ calls' = Append(calls, Call("find"))
    /\ lastCall' = [op |-> "find",
                    args |-> [nameFilter |-> nameFilter, typeFilter |-> typeFilter,
                              enabledFilter |-> enabledFilter, serviceId |-> serviceIdArg]]
    /\ fetches' = <<>>
    /\ served' = <<>>
    /\ yielded' = <<>>
    /\ accessed' = NoAccess
    /\ UNCHANGED <<lastRequest, lastResponse>>

\* Reading property prop of the Connector the last call returned
Access(prop) ==
    /\ result.kind = "Connector"
    /\ LET a == Property(prop, result.item)
       IN  /\ accessed' = [prop |-> prop, out |-> a.out, before |-> result.item]
           /\ result' = [result EXCEPT !.item = a.self]
    /\ UNCHANGED <<requests, lastRequest, lastResponse, calls, lastCall>>
    /\ UNCHANGED listVars

\* One step of enumerating the list the last find returned (next())
ListNext ==
    /\ list.state = "open"
    /\ lastCall' = [op |-> "next",
                    args |-> [n |-> IF lastCall.op = "next" THEN lastCall.args.n + 1 ELSE 1]]
    /\ accessed' = NoAccess
    /\ UNCHANGED calls
    /\ \/ /\ list.buffer # <<>>
          /\ LET p == PopItem(list.buffer)
             IN  /\ result' = ConnectorInit(p.item)
                 /\ yielded' = Append(yielded, p.item)
                 /\ list' = [list EXCEPT !.buffer = p.rest]
          /\ UNCHANGED <<requests, lastRequest, lastResponse, fetches, served>>
       \/ /\ list.buffer = <<>>
          /\ list.noMoreResults
          /\ result' = StopIteration
          /\ list' = [list EXCEPT !.state = "done"]
          /\ UNCHANGED <<requests, lastRequest, lastResponse, fetches, served, yielded>>
       \/ /\ list.buffer = <<>>
          /\ ~list.noMoreResults
          /\ \E r \in PageReplies(Len(served) + 1, Len(Concat(served))) :
                /\ Len(served) + 1 = MaxPages => "bookmark" \notin DOMAIN r.json
                /\ requests' = requests \o Sent("GET", list.url)
                /\ fetches' = Append(fetches, FetchParams(list))
                /\ lastRequest' = [verb |-> "GET", url |-> list.url, data |-> EmptyDict,
                                   params |-> FetchParams(list)]
                /\ lastResponse' = r
                /\ IF r.status_code # HTTP_OK
                   THEN /\ result' = ApiException(r)
                        /\ list' = [list EXCEPT !.state = "failed"]
                        /\ UNCHANGED <<served, yielded>>
                   ELSE LET l == MakeApiCall(list, r.json)
                        IN  /\ served' = Append(served, r.json)
                            /\ IF l.buffer # <<>>
                               THEN LET p == PopItem(l.buffer)
                                    IN  /\ result' = ConnectorInit(p.item)
                                        /\ yielded' = Append(yielded, p.item)
                                        /\ list' = [l EXCEPT !.buffer = p.rest]
                               ELSE /\ result' = StopIteration
                                    /\ list' = [l EXCEPT !.state = "done"]
                                    /\ UNCHANGED yielded

----------------------------------------------------------------------------

FilterValues == [nameFilter : {None, "", "x"}, typeFilter : {None, "cloudant"},
                 enabledFilter : {None, "False", "True"}, serviceId : {None, "s1"}]

Init ==
    /\ requests = <<>>
    /\ lastRequest = NoRequest
    /\ lastResponse = NoResponse
    /\ calls = <<>>
    /\ lastCall = [op |-> "none", args |-> EmptyDict]
    /\ result = NoOutcome
    /\ accessed = NoAccess
    /\ list = NoList
    /\ fetches = <<>>
    /\ served = <<>>
    /\ yielded = <<>>

DoCreate ==
    \E name \in Names, type \in Types, s \in ServiceIds, tz \in Timezones, d \in Descriptions,
       e \in Enableds, c \in Configurations, r \in Responses :
        Create(name, type, s, tz, d, e, c, r)

DoUpdate ==
    \E id \in ConnectorIds, s \in ServiceIds, name \in Names, type \in Types, d \in Descriptions,
       tz \in Timezones, e \in Enableds, c \in Configurations, r \in Responses :
        Update(id, s, name, type, d, tz, e, c, r)

DoFind == \E f \in FilterValues : Find(f.nameFilter, f.typeFilter, f.enabledFilter, f.serviceId)

DoAccess == \E prop \in Properties : Access(prop)

\* The caller creating, updating and reading connectors
NextConnectors == DoCreate \/ DoUpdate \/ DoAccess

SpecConnectors == Init /\ [][NextConnectors]_vars

\* The caller querying connectors and enumerating the result
NextList == DoFind \/ ListNext

SpecList == Init /\ [][NextList]_vars

Next == NextConnectors \/ NextList

Spec == Init /\ [][Next]_vars

----------------------------------------------------------------------------
(* Properties *)

Last(seq) == seq[Len(seq)]

HasIdAndType(json) == {"id", "type"} \subseteq DOMAIN json

\* C1 as stated: after create, a reply of status 201 always gives a Connector
\* built from the reply's body, and any other status raises the ApiException
\* carrying that reply.
C1_CreateAsStated ==
    lastCall.op = "create" =>
        IF lastResponse.status_code = 201
        THEN result.kind = "Connector" /\ result.item = lastResponse.json
        ELSE result = ApiException(lastResponse)

\* C1 amended: after create, a reply of status 201 whose body has both id and
\* type gives a Connector whose backing dict is that body (so its id is the
\* body's id); a 201 whose body lacks id or type gives no Connector and no
\* ApiException but a KeyError; every other status, 200 included, raises the
\* ApiException carrying that reply and gives no Connector.
C1_CreateStatus ==
    lastCall.op = "create" =>
        IF lastResponse.status_code = 201
        THEN IF HasIdAndType(lastResponse.json)
             THEN /\ result.kind = "Connector"
                  /\ result.item = lastResponse.json
                  /\ result.item["id"] = lastResponse.json["id"]
             ELSE result.kind = "KeyError"
        ELSE result = ApiException(lastResponse)

C1_Witness ==
    /\ lastCall.op = "create"
    /\ lastResponse.status_code = 201
    /\ result.kind = "Connector"
    /\ result.item["id"] = "c2"

\* C2 as stated: after update(connectorId, ...), the PUT went to the single-item
\* URL of connectorId with a body whose id is connectorId; a reply of status
\* 200 always gives a Connector built from the reply's body, any other status
\* raises the ApiException carrying that reply.
C2_UpdateAsStated ==
    lastCall.op = "update" =>
        /\ lastRequest.verb = "PUT"
        /\ lastRequest.url = "api/v0002/historianconnectors/" \o lastCall.args.connectorId
        /\ lastRequest.data["id"] = lastCall.args.connectorId
        /\ IF lastResponse.status_code = 200
           THEN result.kind = "Connector" /\ result.item = lastResponse.json
           ELSE result = ApiException(lastResponse)

\* C2 amended: after update(connectorId, ...), the PUT went to the single-item
\* URL of connectorId with a body whose id is connectorId; a reply of status
\* 200 whose body has both id and type gives a Connector whose backing dict is
\* that body; a 200 whose body lacks id or type gives a KeyError; every other
\* status, 201 included, raises the ApiException carrying that reply.
C2_UpdateStatus ==
    lastCall.op = "update" =>
        /\ lastRequest.verb = "PUT"
        /\ lastRequest.url = "api/v0002/historianconnectors/" \o lastCall.args.connectorId
        /\ lastRequest.data["id"] = lastCall.args.connectorId
        /\ IF lastResponse.status_code = 200
           THEN IF HasIdAndType(lastResponse.json)
                THEN result.kind = "Connector" /\ result.item = lastResponse.json
                ELSE result.kind = "KeyError"
           ELSE result = ApiException(lastResponse)

C2_Witness ==
    /\ lastCall.op = "update"
    /\ lastCall.args.connectorId = "c2"
    /\ lastRequest.url = "api/v0002/historianconnectors/c2"
    /\ lastResponse.status_code = 201
    /\ result.kind = "ApiException"

\* The filter mapping C3 describes: a key for every argument that is not None,
\* mapped to the argument
StatedFilters(args) ==
    LET given == {k \in {"nameFilter", "typeFilter", "enabledFilter", "serviceId"} : args[k] # None}
        KeyOf(k) == CASE k = "nameFilter" -> "name"
                      [] k = "typeFilter" -> "type"
                      [] k = "enabledFilter" -> "enabled"
                      [] k = "serviceId" -> "serviceId"
        ArgOf(q) == CASE q = "name" -> "nameFilter"
                      [] q = "type" -> "typeFilter"
                      [] q = "enabled" -> "enabledFilter"
                      [] q = "serviceId" -> "serviceId"
    IN  [q \in {KeyOf(k) : k \in given} |-> args[ArgOf(q)]]

\* C3: after find, the filter mapping handed to the list has the key name, type,
\* enabled, serviceId exactly when the matching argument is not None (the empty
\* string and False included), mapped to the argument, and no other key.
C3_FindFilters ==
    lastCall.op = "find" => list.filters = StatedFilters(lastCall.args)

\* C4: after update, the PUT body has the key configuration exactly when the
\* configuration argument is not None, mapped to the argument unchanged (an
\* empty object included), and the seven keys id, name, type, serviceId,
\* description, timezone, enabled always, with the arguments' values.
C4_UpdateBody ==
    lastCall.op = "update" =>
        LET a == lastCall.args
            body == lastRequest.data
        IN  /\ ("configuration" \in DOMAIN body) <=> (a.configuration # None)
            /\ "configuration" \in DOMAIN body => body["configuration"] = a.configuration
            /\ DOMAIN body \ {"configuration"} =
                   {"id", "name", "type", "serviceId", "description", "timezone", "enabled"}
            /\ body["id"] = a.connectorId
            /\ body["name"] = a.name
            /\ body["type"] = a.type
            /\ body["serviceId"] = a.serviceId
            /\ body["description"] = a.description
            /\ body["timezone"] = a.timezone
            /\ body["enabled"] = a.enabled

C4_Witness ==
    /\ lastCall.op = "update"
    /\ lastCall.args.configuration = "{}"
    /\ "configuration" \in DOMAIN lastRequest.data
    /\ lastRequest.data["configuration"] = "{}"

\* C5: after create, the POST went to the collection URL with a body holding
\* name, type, description, serviceId, timezone, enabled with the arguments'
\* values, and the key configuration mapped to the argument whenever the
\* configuration argument is given.
C5_CreateBody ==
    lastCall.op = "create" =>
        LET a == lastCall.args
            body == lastRequest.data
        IN  /\ lastRequest.verb = "POST"
            /\ lastRequest.url = "api/v0002/historianconnectors"
            /\ body["name"] = a.name
            /\ body["type"] = a.type
            /\ body["description"] = a.description
            /\ body["serviceId"] = a.serviceId
            /\ body["timezone"] = a.timezone
            /\ body["enabled"] = a.enabled
            /\ a.configuration # None =>
                   "configuration" \in DOMAIN body /\ body["configuration"] = a.configuration

\* C8: reading a property of a Connector: configuration never raises, it
\* returns the field when the key is there and None when it is not; serviceId,
\* connectorType, adminDisabled, enabled, timezone return the backing field when
\* the key is there and raise KeyError when it is not; the backing dict is the
\* same after the read.
C8_Accessors ==
    accessed.prop # "" =>
        LET self == accessed.before
            key == IF accessed.prop = "connectorType" THEN "type" ELSE accessed.prop
        IN  /\ accessed.prop = "configuration" =>
                /\ accessed.out.kind = "value"
                /\ accessed.out.value = IF key \in DOMAIN self THEN self[key] ELSE None
            /\ accessed.prop # "configuration" =>
                IF key \in DOMAIN self
                THEN accessed.out.kind = "value" /\ accessed.out.value = self[key]
                ELSE accessed.out.kind = "KeyError" /\ accessed.out.value = key
            /\ result.item = self

C8_Witness ==
    /\ accessed.prop = "configuration"
    /\ "configuration" \notin DOMAIN accessed.before
    /\ accessed.out.kind = "value"
    /\ accessed.out.value = None

\* C9: the transport has received one request per create or update call, a
\* POST for a create and a PUT for an update, in the order of the calls; and a
\* reply whose status is not the call's success status is raised by that call
\* as the ApiException carrying it.
C9_NoRetries ==
    /\ Len(requests) = Len(calls)
    /\ \A i \in 1..Len(calls) :
          requests[i].verb = (IF calls[i].op = "create" THEN "POST" ELSE "PUT")
    /\ lastCall.op = "create" /\ lastResponse.status_code # 201 => result = ApiException(lastResponse)
    /\ lastCall.op = "update" /\ lastResponse.status_code # 200 => result = ApiException(lastResponse)

C9_Witness ==
    /\ Len(calls) = 3
    /\ calls[1].op = "create"
    /\ calls[2].op = "update"
    /\ calls[3].op = "create"
    /\ lastResponse.status_code = 500
    /\ result.kind = "ApiException"
    /\ Len(requests) = 3

\* C10: when create is answered 201, or update 200, with a body lacking id or
\* type, the call raises a KeyError naming a missing key, not an ApiException,
\* and returns no Connector, the request having been sent; and every Connector
\* create or update returns has id and type in its backing dict.
C10_RequiredKeys ==
    /\ (\/ lastCall.op = "create" /\ lastResponse.status_code = 201
        \/ lastCall.op = "update" /\ lastResponse.status_code = 200)
       /\ ~HasIdAndType(lastResponse.json)
           => /\ result.kind = "KeyError"
              /\ result.value \in {"id", "type"} \ DOMAIN lastResponse.json
              /\ requests # <<>>
              /\ Last(requests).verb = lastRequest.verb
              /\ lastRequest.verb = (IF lastCall.op = "create" THEN "POST" ELSE "PUT")
    /\ lastCall.op \in {"create", "update"} /\ result.kind = "Connector"
           => HasIdAndType(result.item)

C10_Witness ==
    /\ lastCall.op = "update"
    /\ lastResponse.status_code = 200
    /\ "id" \in DOMAIN lastResponse.json
    /\ "type" \notin DOMAIN lastResponse.json
    /\ result = KeyError("type")
    /\ Last(requests).verb = "PUT"

C7_FindSendsNothing ==
    [][ /\ (Len(calls') > Len(calls) /\ Last(calls').op = "find")
              => (requests' = requests /\ fetches' = <<>> /\ list'.buffer = <<>>)
        /\ requests' # requests
              => /\ lastCall'.op = "next"
                 /\ Len(requests') = Len(requests) + 1
                 /\ Last(requests').verb = "GET" ]_vars

C7_Witness ==
    /\ Len(calls) = 2
    /\ lastCall.op = "find"
    /\ Len(requests) = 2
    /\ fetches = <<>>
    /\ list.state = "open"

====
